---- MODULE Spec2Model ----
(***************************************************************************)
(* A model of perplexity-cli: the chat cycle of PerplexityCLI              *)
(* (perplexity_cli.py), the session it keeps (session.py), and the         *)
(* completion client with its streaming decoder (api.py).                  *)
(*                                                                         *)
(* Text is a TLA+ string; Len and \o are Python's len and +.  A received   *)
(* line and an HTTP response body are records that describe the bytes the  *)
(* server sent: what json.loads makes of them and which keys they carry.   *)
(***************************************************************************)
EXTENDS Integers, Sequences, FiniteSets, TLC

VARIABLES
    driver,             \* who runs: "cli" or "cli_long" (PerplexityCLI.run), "test" (test_streaming_chat),
                        \* "sync_test" (test_sync_chat), "session" (users of Session.save and
                        \* load), "compress" (summarize_if_needed alone), "count" (the counter)
    tiktoken,           \* "missing": import failed; "broken": imported, get_encoding raises
    input_token_limit,  \* Config.input_token_limit
    pc,                 \* position of the single thread of control
    turns,              \* chat calls started so far; also the reading of datetime.now()
    messages,           \* Session.messages
    created_at,         \* Session.created_at
    user_input,         \* chat's argument
    sm_messages,        \* summarize_if_needed: local `messages` (the copy taken at line 194)
    token_count,        \* summarize_if_needed: local `token_count`
    summary_text,       \* summarize_if_needed: local `summary_text`, the text sent to summarize
    sync_calls,         \* non-streaming requests issued during the current chat call
    sync_outcome,       \* how the summarization call ended: "none", "returned", "raised"
    summary,            \* summarize_if_needed: local `summary`
    console,            \* notices printed during the current chat call, in order
    outbound,           \* chat: local `messages`, the list sent to the endpoint
    full_response,      \* consumer's local `full_response`
    conn,               \* the streaming request's connection: "none", "open", "closed"
    lines,              \* lines the transport has delivered to the decoder, in order
    citations,          \* _stream_response: local `citations`
    full_content,       \* _stream_response: local `full_content`
    chunks,             \* fragments yielded so far, in order
    gen,                \* the generator: "none", "created", "running", "returned", "raised", "closed"
    exc,                \* the exception that left the generator or _sync_response, "" if none
    result,             \* the return value of the generator or of _sync_response, once returned
    stream_calls,       \* streaming requests issued for the current generator's consumer
    response,           \* test_sync_chat: what the endpoint answers to its request
    model,              \* Session.model
    current_file,       \* Session.current_file, "" for None
    files,              \* the session directory: file name -> what the file holds
    session2,           \* a second Session object on the same directory
    save_call,          \* the last call of save: when, its argument, what the session held
    load_call           \* the last call of session2.load: when, its argument, what it returned

vars == <<driver, tiktoken, input_token_limit, pc, turns, messages, created_at,
          user_input, sm_messages, token_count, summary_text, sync_calls,
          sync_outcome, summary, console, outbound, full_response, conn, lines, citations, full_content, chunks,
          gen, exc, result, stream_calls, response, model, current_file, files, session2,
          save_call, load_call>>

cliVars == <<turns, messages, created_at, user_input, sm_messages, token_count,
             summary_text, sync_calls, sync_outcome, summary, console, outbound>>

streamVars == <<conn, lines, citations, full_content, chunks, gen, exc, result>>

envVars == <<driver, tiktoken, input_token_limit>>

sessVars == <<model, current_file, files, session2, save_call, load_call>>

-----------------------------------------------------------------------------
(* Bounds of the model. *)

\* chat calls in one run of the CLI
MaxTurns == 4

\* chat calls in one run of the CLI when the conversation is followed further
MaxLongTurns == 5

\* the two runs of PerplexityCLI.run explored
CliDrivers == {"cli", "cli_long"}

TurnBound == IF driver = "cli_long" THEN MaxLongTurns ELSE MaxTurns

\* lines the server sends in one stream consumed by the CLI
MaxChatLines == 1

\* lines the server sends in one stream consumed by the test driver
MaxLines == 4

\* the two configured budgets explored
LowLimit == 3

HighLimit == 8

InputTokenLimits == {LowLimit, HighLimit}

\* what the user types
UserInputs == {"hi", "tell me more"}

-----------------------------------------------------------------------------
(* Messages and token counting. *)

Message(role, content) == [role |-> role, content |-> content]

TIKTOKEN_AVAILABLE == tiktoken # "missing"

CharsPerToken == 4

\* the mutant counts a started group of four characters as a token
count_tokens_ceil(text) == (Len(text) + CharsPerToken - 1) \div CharsPerToken

\* With tiktoken imported the only outcome modelled is the one where
\* get_encoding raises (lines 36-37), which falls through to the estimate;
\* the counts of a working tokenizer belong to that library.
count_tokens(text) ==
    LET estimate == Len(text) \div CharsPerToken
    IN  IF TIKTOKEN_AVAILABLE
        THEN estimate   \* except Exception: pass
        ELSE estimate

RECURSIVE SumTokens(_)
SumTokens(msgs) ==
    IF msgs = <<>> THEN 0
    ELSE count_tokens(Head(msgs).content) + SumTokens(Tail(msgs))

get_messages_token_count(msgs) == SumTokens(msgs)

-----------------------------------------------------------------------------
(* Session (session.py). *)

add_message(msgs, role, content) == Append(msgs, Message(role, content))

get_messages(msgs) == msgs

RECURSIVE add_all(_, _)
add_all(msgs, more) ==
    IF more = <<>> THEN msgs
    ELSE add_all(add_message(msgs, Head(more).role, Head(more).content), Tail(more))

DefaultModel == "sonar-pro"

\* lines 29-32: a Session object as __init__ leaves it at time `now`
NewSession(now) ==
    [messages |-> <<>>, current_file |-> "", created_at |-> now, model |-> DefaultModel]

\* What a file of the session directory holds.  json: whether json.load
\* accepts the text; keys: the keys of the object it holds; then their values.
File(json, keys, created, saved, mdl, msgs) ==
    [json |-> json, keys |-> keys, created_at |-> created, saved_at |-> saved,
     model |-> mdl, messages |-> msgs]

\* lines 65-73: what json.dump writes
Dumped(created, now, mdl, msgs) ==
    File(TRUE, {"created_at", "saved_at", "model", "messages"}, created, now, mdl, msgs)

\* a file that is not JSON
CorruptFile == File(FALSE, {}, 0, 0, "", <<>>)

EmptyDir == [f \in {} |-> CorruptFile]

\* lines 57-61
SaveFileName(name, now) ==
    IF name # "" THEN name \o ".json" ELSE "session_" \o ToString(now) \o ".json"

\* open(filepath, "w") and json.dump
WriteFile(dir, f, data) ==
    [x \in DOMAIN dir \cup {f} |-> IF x = f THEN data ELSE dir[x]]

\* the mutant looks for the file under the given name only
LoadPath_exact(dir, filename) ==
    IF filename \in DOMAIN dir THEN filename ELSE ""

\* lines 88-93: the name of the file load reads, "" when it finds none
LoadPath(dir, filename) ==
    IF filename \in DOMAIN dir THEN filename
    ELSE IF (filename \o ".json") \in DOMAIN dir THEN filename \o ".json"
    ELSE ""

\* data.get(key, default)
Get(file, key, default) == IF key \in file.keys THEN file[key] ELSE default

\* lines 87-105: the Session object after load(filename) at time `now`, and what load returns
load(sess, dir, filename, now) ==
    LET path == LoadPath(dir, filename)
    IN  IF path = "" THEN [session |-> sess, ret |-> FALSE]
        ELSE IF ~dir[path].json THEN [session |-> sess, ret |-> FALSE]   \* JSONDecodeError
        ELSE [session |-> [messages |-> Get(dir[path], "messages", <<>>),
                           created_at |-> Get(dir[path], "created_at", now),
                           model |-> Get(dir[path], "model", DefaultModel),
                           current_file |-> path],
              ret |-> TRUE]

\* no call of save yet, no call of load yet
NoSave == [at |-> 0, name |-> "", messages |-> <<>>, model |-> ""]

NoLoad == [at |-> 0, arg |-> "", ret |-> FALSE, before |-> <<>>]

NoResponse == [status |-> "none"]

\* the session's fields, its directory and the second object, when nothing has used them
InitSession ==
    /\ model = DefaultModel
    /\ current_file = ""
    /\ files = EmptyDir
    /\ session2 = NewSession(0)
    /\ save_call = NoSave
    /\ load_call = NoLoad

-----------------------------------------------------------------------------
(* The non-streaming completion call and summarize (api.py). *)

\* A response to a non-streaming request.  status: "ok", "http_error" (a
\* non-success status) or "conn_error" (requests.post raises).  body: what
\* response.json() holds: "not_json" (it raises), "no_choices" (an object
\* without a `choices` key), "empty_choices" (`choices` is []), "no_message"
\* (choices[0] is {}), "message" (choices[0].message.content is `content`),
\* "bad_choice" (choices[0] is not an object).  cit: whether the object has a
\* `citations` key: "absent" or "list" (holding the list citv).
CitedResponse(status, body, content, cit, citv) ==
    [status |-> status, body |-> body, content |-> content, cit |-> cit, citv |-> citv]

SyncResponse(status, body, content) == CitedResponse(status, body, content, "absent", <<>>)

SyncResponses ==
    { SyncResponse("http_error", "no_choices", ""),
      SyncResponse("conn_error", "no_choices", ""),
      SyncResponse("ok", "no_choices", ""),
      SyncResponse("ok", "message", "S"),
      SyncResponse("ok", "bad_choice", "") }

\* What a call returns: it raised, or it returned `content`.
Returned(content) == [raised |-> FALSE, content |-> content]

Raised == [raised |-> TRUE, content |-> ""]

\* What _sync_response returns: it raised `e`, or it returned the dict of lines 122-125.
RaisedWith(e) == [raised |-> TRUE, exc |-> e, content |-> "", citations |-> <<>>]

ReturnedWith(content, cits) ==
    [raised |-> FALSE, exc |-> "", content |-> content, citations |-> cits]

\* line 124: result.get("citations", [])
ResponseCitations(resp) == IF resp.cit = "list" THEN resp.citv ELSE <<>>

\* the mutant indexes choices without the test of line 119
_sync_response_unguarded(resp) ==
    IF resp.status = "conn_error" THEN RaisedWith("ConnectionError")
    ELSE IF resp.status = "http_error" THEN RaisedWith("HTTPError")
    ELSE IF resp.body = "not_json" THEN RaisedWith("JSONDecodeError")
    ELSE IF resp.body = "no_choices" THEN RaisedWith("KeyError")
    ELSE IF resp.body = "empty_choices" THEN RaisedWith("IndexError")
    ELSE IF resp.body = "bad_choice" THEN RaisedWith("AttributeError")
    ELSE IF resp.body = "no_message" THEN ReturnedWith("", ResponseCitations(resp))
    ELSE ReturnedWith(resp.content, ResponseCitations(resp))

\* lines 114-125
_sync_response(resp) ==
    IF resp.status = "conn_error" THEN RaisedWith("ConnectionError")    \* requests.post
    ELSE IF resp.status = "http_error" THEN RaisedWith("HTTPError")     \* raise_for_status
    ELSE IF resp.body = "not_json" THEN RaisedWith("JSONDecodeError")   \* response.json()
    ELSE IF resp.body \in {"no_choices", "empty_choices"}
         THEN ReturnedWith("", ResponseCitations(resp))
    ELSE IF resp.body = "bad_choice" THEN RaisedWith("AttributeError")  \* (5).get
    ELSE IF resp.body = "no_message" THEN ReturnedWith("", ResponseCitations(resp))
    ELSE ReturnedWith(resp.content, ResponseCitations(resp))

\* lines 151-157; result.get("content", text): the key is always there
summarize(text, resp) ==
    LET r == _sync_response(resp)
    IN  IF r.raised THEN Raised ELSE Returned(r.content)

-----------------------------------------------------------------------------
(* summarize_if_needed (perplexity_cli.py). *)

RecentWindow == 4

SummaryPrefix == "Previous conversation summary: "

SystemPrompt == "You are a helpful AI assistant with real-time search capabilities."

\* mutants of the test at line 197: no length test; >= for >; a window of five
NeedsSummary_any_length(msgs, count) == count > input_token_limit

NeedsSummary_at_budget(msgs, count) ==
    count >= input_token_limit /\ Len(msgs) > RecentWindow

NeedsSummary_window_five(msgs, count) ==
    count > input_token_limit /\ Len(msgs) > RecentWindow + 1

\* the mutant does not look at the budget
NeedsSummary_over_window(msgs, count) == Len(msgs) > RecentWindow

\* line 197
NeedsSummary(msgs, count) ==
    count > input_token_limit /\ Len(msgs) > RecentWindow

\* messages[:-4]
to_summarize(msgs) ==
    IF Len(msgs) > RecentWindow THEN SubSeq(msgs, 1, Len(msgs) - RecentWindow) ELSE <<>>

\* the mutant keeps messages[-3:]
to_keep_three(msgs) ==
    IF Len(msgs) > RecentWindow - 1
    THEN SubSeq(msgs, Len(msgs) - RecentWindow + 2, Len(msgs))
    ELSE msgs

\* messages[-4:]
to_keep(msgs) ==
    IF Len(msgs) > RecentWindow
    THEN SubSeq(msgs, Len(msgs) - RecentWindow + 1, Len(msgs))
    ELSE msgs

RECURSIVE Transcript(_)
Transcript(msgs) ==
    IF msgs = <<>> THEN ""
    ELSE IF Len(msgs) = 1 THEN msgs[1].role \o ": " \o msgs[1].content
    ELSE msgs[1].role \o ": " \o msgs[1].content \o "\n" \o Transcript(Tail(msgs))

\* the mutant adds the summary message after the messages it keeps
Rewritten_summary_last(text, keep) ==
    add_message(add_all(<<>>, keep), "system", SummaryPrefix \o text)

\* lines 212-215
Rewritten(text, keep) ==
    add_all(add_message(<<>>, "system", SummaryPrefix \o text), keep)

\* the mutant clears the session before the call is known to have succeeded
AfterSummarize_clear_first(msgs, keep, outcome) ==
    IF outcome.raised THEN <<>> ELSE Rewritten(outcome.content, keep)

\* the mutant rewrites only when the summary has some text
AfterSummarize_skip_empty(msgs, keep, outcome) ==
    IF outcome.raised \/ outcome.content = "" THEN msgs
    ELSE Rewritten(outcome.content, keep)

\* lines 208-219: the session's messages once the summarization call is over
AfterSummarize(msgs, keep, outcome) ==
    IF outcome.raised THEN msgs ELSE Rewritten(outcome.content, keep)

\* lines 217-219
NoticeAfterSummarize(outcome) ==
    IF outcome.raised THEN "warning" ELSE "summarized"

-----------------------------------------------------------------------------
(* chat (perplexity_cli.py). *)

\* the mutant stores the user turn in the session before it builds the list
BuildOutbound_after_store(hist, u) ==
    <<Message("system", SystemPrompt)>> \o get_messages(add_message(hist, "user", u))
        \o <<Message("user", u)>>

\* lines 226-228
BuildOutbound(hist, u) ==
    <<Message("system", SystemPrompt)>> \o get_messages(hist) \o <<Message("user", u)>>

NoResult == <<>>

\* a connection that was released is forgotten with its request; one that was not stays open
StreamIdle ==
    /\ conn' = IF conn = "open" THEN "open" ELSE "none"
    /\ lines' = <<>>
    /\ citations' = <<>>
    /\ full_content' = ""
    /\ chunks' = <<>>
    /\ exc' = ""
    /\ result' = NoResult

\* chat is called: summarize_if_needed runs up to its summarization call, or to its end
ChatBegin(u) ==
    /\ driver \in CliDrivers
    /\ pc = "prompt"
    /\ turns < TurnBound
    /\ turns' = turns + 1
    /\ user_input' = u
    /\ LET msgs == get_messages(messages)
           count == get_messages_token_count(msgs)
       IN  /\ sm_messages' = msgs
           /\ token_count' = count
           /\ IF NeedsSummary(msgs, count)
              THEN /\ console' = <<"summarizing">>
                   /\ summary_text' = Transcript(to_summarize(msgs))
                   /\ sync_calls' = 1
                   /\ pc' = "summarizing"
              ELSE /\ console' = <<>>
                   /\ summary_text' = ""
                   /\ sync_calls' = 0
                   /\ pc' = "build"
    /\ sync_outcome' = "none"
    /\ summary' = ""
    /\ outbound' = <<>>
    /\ full_response' = ""
    /\ gen' = "none"
    /\ stream_calls' = 0
    /\ StreamIdle
    /\ UNCHANGED <<envVars, sessVars, response, messages, created_at>>

\* the summarization call returns or raises; summarize_if_needed runs to its end
SummarizeReturn(resp) ==
    /\ pc = "summarizing"
    /\ LET outcome == summarize(summary_text, resp)
       IN  /\ messages' = AfterSummarize(messages, to_keep(sm_messages), outcome)
           /\ created_at' = IF outcome.raised THEN created_at ELSE turns
           /\ console' = Append(console, NoticeAfterSummarize(outcome))
           /\ sync_outcome' = IF outcome.raised THEN "raised" ELSE "returned"
           /\ summary' = outcome.content
    /\ pc' = "build"
    /\ UNCHANGED <<envVars, sessVars, response, stream_calls, turns, user_input, sm_messages, token_count, summary_text,
                   sync_calls, outbound, full_response, streamVars>>

\* the mutant does not wait for the summarization call to end
ChatSend_early ==
    /\ pc \in {"build", "summarizing"}
    /\ outbound' = BuildOutbound(messages, user_input)
    /\ messages' = add_message(messages, "user", user_input)
    /\ full_response' = ""
    /\ gen' = "created"
    /\ pc' = "streaming"
    /\ UNCHANGED <<envVars, sessVars, response, stream_calls, turns, created_at, user_input, sm_messages, token_count,
                   summary_text, sync_calls, sync_outcome, summary, console, conn,
                   lines, citations, full_content, chunks, exc, result>>

\* lines 226-238: the outbound list is built, the user turn stored, the generator made
ChatSend ==
    /\ pc = "build"
    /\ outbound' = BuildOutbound(messages, user_input)
    /\ messages' = add_message(messages, "user", user_input)
    /\ full_response' = ""
    /\ gen' = "created"
    /\ pc' = "streaming"
    /\ UNCHANGED <<envVars, sessVars, response, stream_calls, turns, created_at, user_input, sm_messages, token_count,
                   summary_text, sync_calls, sync_outcome, summary, console, conn,
                   lines, citations, full_content, chunks, exc, result>>

-----------------------------------------------------------------------------
(* Lines of an event stream, as response.iter_lines() delivers them. *)

\* raw:     "empty" (b""), "badutf8" (bytes that are not UTF-8), "other" (text
\*          that does not start with "data: "), "data" (text that does)
\* top:     what the payload after "data: " is: "done" (the text [DONE]),
\*          "malformed" (json.loads raises JSONDecodeError), or the type of the
\*          value json.loads returns: "number", "string", "array", "object"
\* cit:     whether `"citations" in chunk`: "absent" or "list" (the key of an
\*          object, holding the list citv)
\* choices: the `choices` key of an object: "absent", "empty" ([]), "number",
\*          or "list" (a non-empty list whose first element is `first`)
\* first:   choices[0]: "number" or "object"
\* delta:   choices[0]["delta"]: "absent", "number" or "object"
\* content: delta["content"]: "absent", "empty" (""), "null", "number", or
\*          "str" (the non-empty text `text`)
Line(raw, top, cit, citv, choices, first, delta, content, text) ==
    [raw |-> raw, top |-> top, cit |-> cit, citv |-> citv, choices |-> choices,
     first |-> first, delta |-> delta, content |-> content, text |-> text]

NonData(raw) == Line(raw, "done", "absent", <<>>, "absent", "number", "absent", "absent", "")

Payload(top) == Line("data", top, "absent", <<>>, "absent", "number", "absent", "absent", "")

Event(cit, citv, choices, first, delta, content, text) ==
    Line("data", "object", cit, citv, choices, first, delta, content, text)

BlankLine == NonData("empty")                       \* b""

Heartbeat == NonData("other")                       \* b": keep-alive"

BadUtf8Line == NonData("badutf8")                   \* b"\xff"

DoneLine == Payload("done")                         \* data: [DONE]

MalformedLine == Payload("malformed")               \* data: {"choices": [

NumberLine == Payload("number")                     \* data: 5

StringLine == Payload("string")                     \* data: "ok"

Delta(text) == Event("absent", <<>>, "list", "object", "object", "str", text)

Cites(citv) == Event("list", citv, "absent", "number", "absent", "absent", "")

CitesDelta(citv, text) == Event("list", citv, "list", "object", "object", "str", text)

\* data: {"choices": [{"delta": {}}]}
EmptyDelta == Event("absent", <<>>, "list", "object", "object", "absent", "")

\* data: {"choices": [{"delta": {"content": ""}}]}
EmptyContent == Event("absent", <<>>, "list", "object", "object", "empty", "")

\* data: {"citations": ["c"], "choices": [5]}
BadChoice == Event("list", <<"c">>, "list", "number", "absent", "absent", "")

\* data: {"choices": [{"delta": 5}]}
BadDelta == Event("absent", <<>>, "list", "object", "number", "absent", "")

\* data: {"choices": [{"delta": {"content": 5}}]}
BadContent == Event("absent", <<>>, "list", "object", "object", "number", "")

CitationsA == <<"a">>

CitationsB == <<"b", "a">>

\* what the server may send to the test driver
Lines ==
    { BlankLine, Heartbeat, BadUtf8Line, DoneLine, MalformedLine, NumberLine,
      StringLine, Delta("Hel"), Delta("lo"), Cites(CitationsA),
      CitesDelta(CitationsB, "lo"), EmptyDelta, EmptyContent, BadChoice, BadDelta,
      BadContent }

\* what the server may send to the CLI
ChatLines == { Delta("Hel"), DoneLine, Heartbeat, BadDelta }

ServerLines == IF driver \in CliDrivers THEN ChatLines ELSE Lines

MaxStream == IF driver \in CliDrivers THEN MaxChatLines ELSE MaxLines

-----------------------------------------------------------------------------
(* _stream_response (api.py), one received line at a time. *)

\* The decoder's locals after a line, with what the line made it do:
\* out is "next" (the loop goes on), "break" (the sentinel) or "raise" (an
\* exception leaves the generator); yielded holds the fragment, if any.
Step(cits, content, yielded, out) ==
    [citations |-> cits, full_content |-> content, yielded |-> yielded, out |-> out,
     exc |-> ""]

\* the line makes `e` leave the generator
Raise(cits, content, e) ==
    [citations |-> cits, full_content |-> content, yielded |-> <<>>, out |-> "raise",
     exc |-> e]

\* the mutant accumulates the citation lists
SetCitations_extend(line, cits) == IF line.cit = "list" THEN cits \o line.citv ELSE cits

\* lines 96-97
SetCitations(line, cits) == IF line.cit = "list" THEN line.citv ELSE cits

\* the mutant assigns where the code appends
Accumulate_overwrite(content, text) == text

\* line 103
Accumulate(content, text) == content \o text

\* the mutant yields the delta's content without the test of line 102
Choices_yield_empty(line, cits, content) ==
    IF line.choices \in {"absent", "empty"} THEN Step(cits, content, <<>>, "next")
    ELSE IF line.choices = "number" THEN Raise(cits, content, "TypeError")
    ELSE IF line.first # "object" THEN Raise(cits, content, "AttributeError")
    ELSE IF line.delta = "absent" THEN Step(cits, content, <<"">>, "next")
    ELSE IF line.delta # "object" THEN Raise(cits, content, "AttributeError")
    ELSE IF line.content \in {"absent", "empty"} THEN Step(cits, content, <<"">>, "next")
    ELSE IF line.content \in {"null", "number"} THEN Raise(cits, content, "TypeError")
    ELSE Step(cits, Accumulate(content, line.text), <<line.text>>, "next")

\* lines 99-104, for a chunk that is an object
Choices(line, cits, content) ==
    IF line.choices \in {"absent", "empty"} THEN Step(cits, content, <<>>, "next")
    ELSE IF line.choices = "number" THEN Raise(cits, content, "TypeError")   \* 5[0]
    ELSE IF line.first # "object" THEN Raise(cits, content, "AttributeError")   \* (5).get
    ELSE IF line.delta = "absent" THEN Step(cits, content, <<>>, "next")
    ELSE IF line.delta # "object" THEN Raise(cits, content, "AttributeError")   \* (5).get
    ELSE IF line.content \in {"absent", "empty", "null"} THEN Step(cits, content, <<>>, "next")
    ELSE IF line.content = "number" THEN Raise(cits, content, "TypeError")   \* str += int
    ELSE Step(cits, Accumulate(content, line.text), <<line.text>>, "next")

\* the mutant has no except clause: a JSONDecodeError leaves the generator
ParseEvent_no_except(line, cits, content) ==
    IF line.top = "malformed" THEN Raise(cits, content, "JSONDecodeError")
    ELSE IF line.top = "number" THEN Raise(cits, content, "TypeError")
    ELSE IF line.top \in {"string", "array"} THEN Step(cits, content, <<>>, "next")
    ELSE Choices(line, SetCitations(line, cits), content)

\* lines 94-106
ParseEvent(line, cits, content) ==
    IF line.top = "malformed" THEN Step(cits, content, <<>>, "next")   \* JSONDecodeError
    ELSE IF line.top = "number" THEN Raise(cits, content, "TypeError")    \* "citations" in 5
    ELSE IF line.top \in {"string", "array"} THEN Step(cits, content, <<>>, "next")
    ELSE Choices(line, SetCitations(line, cits), content)

\* the mutant goes on reading after the sentinel
ProcessLine_past_sentinel(line, cits, content) ==
    IF line.raw = "empty" THEN Step(cits, content, <<>>, "next")
    ELSE IF line.raw = "badutf8" THEN Raise(cits, content, "UnicodeDecodeError")
    ELSE IF line.raw = "other" THEN Step(cits, content, <<>>, "next")
    ELSE IF line.top = "done" THEN Step(cits, content, <<>>, "next")
    ELSE ParseEvent(line, cits, content)

\* lines 83-106: the loop body
ProcessLine(line, cits, content) ==
    IF line.raw = "empty" THEN Step(cits, content, <<>>, "next")
    ELSE IF line.raw = "badutf8" THEN Raise(cits, content, "UnicodeDecodeError")   \* line.decode
    ELSE IF line.raw = "other" THEN Step(cits, content, <<>>, "next")
    ELSE IF line.top = "done" THEN Step(cits, content, <<>>, "break")
    ELSE ParseEvent(line, cits, content)

\* line 108
CompletionResult(cits, content) == [citations |-> cits, content |-> content]

\* lines 82-106 over a whole sequence of lines: the locals, the fragments and the
\* way the loop ended ("next": every line was consumed and the loop goes on)
RECURSIVE RunLines(_, _, _, _)
RunLines(ls, cits, content, yielded) ==
    IF ls = <<>> THEN Step(cits, content, yielded, "next")
    ELSE LET s == ProcessLine(Head(ls), cits, content)
         IN  IF s.out = "next"
             THEN RunLines(Tail(ls), s.citations, s.full_content, yielded \o s.yielded)
             ELSE [s EXCEPT !.yielded = yielded \o s.yielded]

\* the mutant leaves the with statement without closing the response
Release_leak(c) == c

\* lines 77-79: the with statement is left, by whatever way; Response.__exit__ closes
Release(c) == "closed"

\* the mutant asks again when the request failed
Opened_retry(status) == IF status = "ok" THEN "running" ELSE "created"

\* lines 77-80: the generator once the request was made
Opened(status) == IF status = "ok" THEN "running" ELSE "raised"

\* the first next(): lines 74-80.  requests.post raises ("conn_error"),
\* raise_for_status raises ("http_error"), or the stream is open ("ok")
StreamOpen(status) ==
    /\ pc = "streaming"
    /\ gen = "created"
    /\ citations' = <<>>
    /\ full_content' = ""
    /\ stream_calls' = stream_calls + 1
    /\ conn' = IF status = "ok" THEN "open"
                ELSE IF status = "http_error" THEN Release("open") ELSE "none"
    /\ gen' = Opened(status)
    /\ exc' = IF status = "ok" THEN ""
              ELSE IF status = "http_error" THEN "HTTPError" ELSE "ConnectionError"
    /\ UNCHANGED <<envVars, sessVars, response, pc, cliVars, full_response, lines, chunks, result>>

\* the transport delivers a line; the loop body runs, and the consumer's with it
StreamLine(line) ==
    /\ pc = "streaming"
    /\ gen = "running"
    /\ Len(lines) < MaxStream
    /\ lines' = Append(lines, line)
    /\ LET s == ProcessLine(line, citations, full_content)
       IN  /\ citations' = s.citations
           /\ full_content' = s.full_content
           /\ chunks' = chunks \o s.yielded
           /\ full_response' = IF s.yielded = <<>> THEN full_response
                                ELSE full_response \o s.yielded[1]
           /\ gen' = CASE s.out = "next" -> "running"
                      [] s.out = "break" -> "returned"
                      [] s.out = "raise" -> "raised"
           /\ conn' = IF s.out = "next" THEN conn ELSE Release(conn)
           /\ exc' = s.exc
           /\ result' = IF s.out = "break"
                         THEN <<CompletionResult(s.citations, s.full_content)>>
                         ELSE result
    /\ UNCHANGED <<envVars, sessVars, response, stream_calls, pc, cliVars>>

\* the transport ends without a sentinel: the loop is over
StreamEnd ==
    /\ pc = "streaming"
    /\ gen = "running"
    /\ gen' = "returned"
    /\ conn' = Release(conn)
    /\ result' = <<CompletionResult(citations, full_content)>>
    /\ UNCHANGED <<envVars, sessVars, response, stream_calls, pc, cliVars, full_response, lines, citations, full_content,
                   chunks, exc>>

\* the transport fails while a line is awaited: iter_lines raises
StreamError ==
    /\ pc = "streaming"
    /\ gen = "running"
    /\ gen' = "raised"
    /\ conn' = Release(conn)
    /\ exc' = "ChunkedEncodingError"
    /\ UNCHANGED <<envVars, sessVars, response, stream_calls, pc, cliVars, full_response, lines, citations, full_content,
                   chunks, result>>

\* The consumer drops the generator before it is exhausted (in the CLI a
\* KeyboardInterrupt unwinds chat).  The generator is finalized: close() raises
\* GeneratorExit at the yield of line 104, no clause catches it, and it leaves
\* through the with statement.  A generator that never ran holds no connection.
StreamAbandon ==
    /\ driver \in CliDrivers
    /\ pc = "streaming"
    /\ gen \in {"created", "running"}
    /\ gen' = "closed"
    /\ conn' = IF gen = "running" THEN Release(conn) ELSE conn
    /\ UNCHANGED <<envVars, sessVars, response, stream_calls, pc, cliVars, full_response, lines, citations,
                   full_content, chunks, exc, result>>

-----------------------------------------------------------------------------
(* The consumers of the stream. *)

\* chat returns: its locals, the generator and summarize_if_needed's locals are gone
ChatReturns ==
    /\ pc' = "prompt"
    /\ user_input' = ""
    /\ sm_messages' = <<>>
    /\ token_count' = 0
    /\ summary_text' = ""
    /\ sync_calls' = 0
    /\ sync_outcome' = "none"
    /\ summary' = ""
    /\ outbound' = <<>>
    /\ full_response' = ""
    /\ gen' = "none"
    /\ stream_calls' = 0
    /\ StreamIdle

\* the mutant stores no reply when nothing was received
AssistantTurn_skip_empty(msgs, text) ==
    IF text = "" THEN msgs ELSE add_message(msgs, "assistant", text)

\* line 243
AssistantTurn(msgs, text) == add_message(msgs, "assistant", text)

\* chat, lines 242-244: the loop ended
ChatFinish ==
    /\ driver \in CliDrivers
    /\ pc = "streaming"
    /\ gen = "returned"
    /\ messages' = AssistantTurn(messages, full_response)
    /\ console' = console
    /\ ChatReturns
    /\ UNCHANGED <<envVars, sessVars, response, turns, created_at>>

\* the mutant stores what was received before the failure
AfterFailure_keep_partial(msgs, text) ==
    IF text = "" THEN msgs ELSE add_message(msgs, "assistant", text)

\* lines 246-247: the handler prints and touches nothing
AfterFailure(msgs, text) == msgs

\* chat, lines 246-247: an exception left the loop
ChatFail ==
    /\ driver \in CliDrivers
    /\ pc = "streaming"
    /\ gen = "raised"
    /\ messages' = AfterFailure(messages, full_response)
    /\ console' = Append(console, "error")
    /\ ChatReturns
    /\ UNCHANGED <<envVars, sessVars, response, turns, created_at>>

\* run, lines 276-277: the interrupt that unwound chat is caught at the prompt loop
ChatInterrupted ==
    /\ driver \in CliDrivers
    /\ pc = "streaming"
    /\ gen = "closed"
    /\ console' = Append(console, "interrupted")
    /\ ChatReturns
    /\ UNCHANGED <<envVars, sessVars, response, turns, messages, created_at>>

TestMessages ==
    << Message("system", "You are a helpful assistant. Keep responses brief."),
       Message("user", "What is 2 + 2? Answer in one sentence.") >>

\* test_streaming_chat, lines 21-32
TestBegin ==
    /\ driver = "test"
    /\ pc = "start"
    /\ outbound' = TestMessages
    /\ full_response' = ""
    /\ gen' = "created"
    /\ pc' = "streaming"
    /\ UNCHANGED <<envVars, sessVars, response, stream_calls, turns, messages, created_at, user_input, sm_messages,
                   token_count, summary_text, sync_calls, sync_outcome, summary,
                   console, conn, lines, citations, full_content, chunks, exc, result>>

\* test_streaming_chat, lines 36-43; an exception ends the test without a verdict
TestFinish ==
    /\ driver = "test"
    /\ pc = "streaming"
    /\ gen \in {"returned", "raised"}
    /\ console' = IF gen = "raised" THEN Append(console, "error")
                  ELSE IF full_response # "" THEN Append(console, "PASSED")
                  ELSE Append(console, "FAILED")
    /\ pc' = "done"
    /\ UNCHANGED <<envVars, sessVars, response, stream_calls, turns, messages, created_at, user_input, sm_messages,
                   token_count, summary_text, sync_calls, sync_outcome, summary,
                   outbound, full_response, streamVars>>

-----------------------------------------------------------------------------
(* Specifications. *)

InitCommon ==
    /\ turns = 0
    /\ messages = <<>>
    /\ created_at = 0
    /\ user_input = ""
    /\ sm_messages = <<>>
    /\ token_count = 0
    /\ summary_text = ""
    /\ sync_calls = 0
    /\ sync_outcome = "none"
    /\ summary = ""
    /\ console = <<>>
    /\ outbound = <<>>
    /\ full_response = ""
    /\ conn = "none"
    /\ lines = <<>>
    /\ citations = <<>>
    /\ full_content = ""
    /\ chunks = <<>>
    /\ gen = "none"
    /\ exc = ""
    /\ result = NoResult
    /\ stream_calls = 0
    /\ response = NoResponse
    /\ InitSession

\* the CLI after __init__, at its prompt
Init ==
    /\ driver = "cli"
    /\ tiktoken \in {"missing", "broken"}
    /\ input_token_limit \in InputTokenLimits
    /\ pc = "prompt"
    /\ InitCommon

Next ==
    \/ \E u \in UserInputs : ChatBegin(u)
    \/ \E resp \in SyncResponses : SummarizeReturn(resp)
    \/ ChatSend
    \/ \E status \in {"ok", "http_error", "conn_error"} : StreamOpen(status)
    \/ \E line \in ServerLines : StreamLine(line)
    \/ StreamEnd
    \/ StreamError
    \/ StreamAbandon
    \/ ChatFinish
    \/ ChatFail
    \/ ChatInterrupted

Spec == Init /\ [][Next]_vars

\* what the user types in the longer conversation
LongInputs == {"tell me more"}

\* the CLI after __init__, at its prompt, with the low budget
InitLong ==
    /\ driver = "cli_long"
    /\ tiktoken = "missing"
    /\ input_token_limit = LowLimit
    /\ pc = "prompt"
    /\ InitCommon

NextLong ==
    \/ \E u \in LongInputs : ChatBegin(u)
    \/ \E resp \in SyncResponses : SummarizeReturn(resp)
    \/ ChatSend
    \/ \E status \in {"ok", "http_error", "conn_error"} : StreamOpen(status)
    \/ \E line \in ServerLines : StreamLine(line)
    \/ StreamEnd
    \/ StreamError
    \/ StreamAbandon
    \/ ChatFinish
    \/ ChatFail
    \/ ChatInterrupted

\* a run of the CLI in which the history is compressed again and again
SpecLong == InitLong /\ [][NextLong]_vars

\* the streaming test, about to call api.chat
InitDecoder ==
    /\ driver = "test"
    /\ tiktoken = "missing"
    /\ input_token_limit = LowLimit
    /\ pc = "start"
    /\ InitCommon

NextDecoder ==
    \/ TestBegin
    \/ \E status \in {"ok", "http_error", "conn_error"} : StreamOpen(status)
    \/ \E line \in ServerLines : StreamLine(line)
    \/ StreamEnd
    \/ StreamError
    \/ TestFinish

SpecDecoder == InitDecoder /\ [][NextDecoder]_vars

\* The streaming test with a consumer that keeps asking for the next fragment
\* and a transport that, its lines delivered, ends or fails: some step of the
\* test is taken whenever one can be.
SpecDecoderFair == InitDecoder /\ [][NextDecoder]_vars /\ WF_vars(NextDecoder)

\* the longest text counted
MaxTextLen == 9

\* the longest message list counted
MaxCounted == 2

RECURSIVE TextOfLen(_)
TextOfLen(n) == IF n = 0 THEN "" ELSE "x" \o TextOfLen(n - 1)

CountedLists ==
    UNION { [1..n -> {Message("user", TextOfLen(k)) : k \in 0..MaxTextLen}] :
            n \in 0..MaxCounted }

\* get_messages_token_count is called on a message list
CountMessages ==
    /\ driver = "count"
    /\ pc = "start"
    /\ token_count' = get_messages_token_count(sm_messages)
    /\ pc' = "done"
    /\ UNCHANGED <<envVars, sessVars, response, stream_calls, turns, messages, created_at, user_input, sm_messages,
                   summary_text, sync_calls, sync_outcome, summary, console, outbound,
                   full_response, streamVars>>

InitTokens ==
    /\ driver = "count"
    /\ tiktoken \in {"missing", "broken"}
    /\ input_token_limit = LowLimit
    /\ pc = "start"
    /\ turns = 0
    /\ messages = <<>>
    /\ created_at = 0
    /\ user_input = ""
    /\ sm_messages \in CountedLists
    /\ token_count = 0
    /\ summary_text = ""
    /\ sync_calls = 0
    /\ sync_outcome = "none"
    /\ summary = ""
    /\ console = <<>>
    /\ outbound = <<>>
    /\ full_response = ""
    /\ conn = "none"
    /\ lines = <<>>
    /\ citations = <<>>
    /\ full_content = ""
    /\ chunks = <<>>
    /\ gen = "none"
    /\ exc = ""
    /\ result = NoResult
    /\ stream_calls = 0
    /\ response = NoResponse
    /\ InitSession

NextTokens == CountMessages

SpecTokens == InitTokens /\ [][NextTokens]_vars

\* the longest history summarize_if_needed is first called on
MaxHistory == 5

\* calls of summarize_if_needed in succession
MaxRuns == 3

\* the length of the long reply of HistoryMessages
LongReplyLen == 36

HistoryMessages ==
    { Message("user", "hi"), Message("assistant", "Hello"),
      Message("user", "tell me more"), Message("assistant", TextOfLen(LongReplyLen)) }

Histories == UNION { [1..n -> HistoryMessages] : n \in 0..MaxHistory }

\* summarize_if_needed is called on the session, for the first time or again:
\* it runs up to its summarization call, or to its end
CompressBegin ==
    /\ driver = "compress"
    /\ pc \in {"idle", "build"}
    /\ turns < MaxRuns
    /\ turns' = turns + 1
    /\ LET msgs == get_messages(messages)
           count == get_messages_token_count(msgs)
       IN  /\ sm_messages' = msgs
           /\ token_count' = count
           /\ IF NeedsSummary(msgs, count)
              THEN /\ console' = <<"summarizing">>
                   /\ summary_text' = Transcript(to_summarize(msgs))
                   /\ sync_calls' = 1
                   /\ pc' = "summarizing"
              ELSE /\ console' = <<>>
                   /\ summary_text' = ""
                   /\ sync_calls' = 0
                   /\ pc' = "build"
    /\ sync_outcome' = "none"
    /\ summary' = ""
    /\ UNCHANGED <<envVars, sessVars, response, stream_calls, messages, created_at, user_input, outbound,
                   full_response, streamVars>>

\* a session with some history, summarize_if_needed about to be called on it
InitCompress ==
    /\ driver = "compress"
    /\ tiktoken \in {"missing", "broken"}
    /\ input_token_limit \in InputTokenLimits
    /\ pc = "idle"
    /\ turns = 0
    /\ messages \in Histories
    /\ created_at = 0
    /\ user_input = ""
    /\ sm_messages = <<>>
    /\ token_count = 0
    /\ summary_text = ""
    /\ sync_calls = 0
    /\ sync_outcome = "none"
    /\ summary = ""
    /\ console = <<>>
    /\ outbound = <<>>
    /\ full_response = ""
    /\ conn = "none"
    /\ lines = <<>>
    /\ citations = <<>>
    /\ full_content = ""
    /\ chunks = <<>>
    /\ gen = "none"
    /\ exc = ""
    /\ result = NoResult
    /\ stream_calls = 0
    /\ response = NoResponse
    /\ InitSession

NextCompress ==
    \/ CompressBegin
    \/ \E resp \in SyncResponses : SummarizeReturn(resp)

SpecCompress == InitCompress /\ [][NextCompress]_vars

\* calls of save and load in one run
MaxSessionOps == 3

\* the longest history saved
MaxSessionMessages == 2

SessionMessages == { Message("user", "Hello!"), Message("assistant", "Hi there!") }

Models == { DefaultModel, "sonar" }

\* the names given to save ("" for none) and to load
SaveNames == { "", "a", "a.json" }

LoadNames == { "a", "a.json", "a.json.json", "b", "junk" }

\* the directory before the run: empty, or holding a file that is not a session
Dirs == { EmptyDir, WriteFile(EmptyDir, "junk.json", CorruptFile) }

\* add_message on the session
SessionAdd(m) ==
    /\ driver = "session"
    /\ Len(messages) < MaxSessionMessages
    /\ messages' = add_message(messages, m.role, m.content)
    /\ UNCHANGED <<envVars, response, pc, turns, created_at, user_input, sm_messages,
                   token_count, summary_text, sync_calls, sync_outcome, summary, console,
                   outbound, full_response, streamVars, stream_calls, model, current_file,
                   files, session2, save_call, load_call>>

\* handle_command, line 175: /model sets the session's model
SessionModel(m) ==
    /\ driver = "session"
    /\ model # m
    /\ model' = m
    /\ UNCHANGED <<envVars, response, pc, cliVars, full_response, streamVars, stream_calls,
                   current_file, files, session2, save_call, load_call>>

\* save(name) on the session
SessionSave(name) ==
    /\ driver = "session"
    /\ turns < MaxSessionOps
    /\ turns' = turns + 1
    /\ LET filename == SaveFileName(name, turns)
       IN  /\ files' = WriteFile(files, filename, Dumped(created_at, turns, model, messages))
           /\ current_file' = filename
    /\ save_call' = [at |-> turns + 1, name |-> name, messages |-> messages, model |-> model]
    /\ UNCHANGED <<envVars, response, pc, messages, created_at, user_input, sm_messages,
                   token_count, summary_text, sync_calls, sync_outcome, summary, console,
                   outbound, full_response, streamVars, stream_calls, model, session2,
                   load_call>>

\* load(filename) on the second Session object
SessionLoad(filename) ==
    /\ driver = "session"
    /\ turns < MaxSessionOps
    /\ turns' = turns + 1
    /\ LET r == load(session2, files, filename, turns)
       IN  /\ session2' = r.session
           /\ load_call' = [at |-> turns + 1, arg |-> filename, ret |-> r.ret,
                            before |-> session2.messages]
    /\ UNCHANGED <<envVars, response, pc, messages, created_at, user_input, sm_messages,
                   token_count, summary_text, sync_calls, sync_outcome, summary, console,
                   outbound, full_response, streamVars, stream_calls, model, current_file,
                   files, save_call>>

\* two Session objects on one directory, as __init__ leaves them
InitSessions ==
    /\ driver = "session"
    /\ tiktoken = "missing"
    /\ input_token_limit = LowLimit
    /\ pc = "session"
    /\ turns = 0
    /\ messages = <<>>
    /\ created_at = 0
    /\ user_input = ""
    /\ sm_messages = <<>>
    /\ token_count = 0
    /\ summary_text = ""
    /\ sync_calls = 0
    /\ sync_outcome = "none"
    /\ summary = ""
    /\ console = <<>>
    /\ outbound = <<>>
    /\ full_response = ""
    /\ conn = "none"
    /\ lines = <<>>
    /\ citations = <<>>
    /\ full_content = ""
    /\ chunks = <<>>
    /\ gen = "none"
    /\ exc = ""
    /\ result = NoResult
    /\ stream_calls = 0
    /\ response = NoResponse
    /\ model = DefaultModel
    /\ current_file = ""
    /\ files \in Dirs
    /\ session2 = NewSession(0)
    /\ save_call = NoSave
    /\ load_call = NoLoad

NextSessions ==
    \/ \E m \in SessionMessages : SessionAdd(m)
    \/ \E m \in Models : SessionModel(m)
    \/ \E name \in SaveNames : SessionSave(name)
    \/ \E filename \in LoadNames : SessionLoad(filename)

SpecSessions == InitSessions /\ [][NextSessions]_vars

\* what response.json() may hold, with the content of its message
SyncBodies ==
    { <<"no_choices", "">>, <<"empty_choices", "">>, <<"no_message", "">>,
      <<"bad_choice", "">>, <<"message", "">>, <<"message", "Mars">>,
      <<"message", "Mars.">> }

\* the `citations` key of the body
SyncCitations == { <<"absent", <<>>>>, <<"list", <<>>>>, <<"list", CitationsA>>, <<"list", CitationsB>> }

\* what the endpoint may answer to test_sync_chat
SyncTestResponses ==
    { CitedResponse(st, b[1], b[2], c[1], c[2]) :
        st \in {"ok", "http_error"}, b \in SyncBodies, c \in SyncCitations }
    \cup { SyncResponse("ok", "not_json", ""), SyncResponse("http_error", "not_json", ""),
           SyncResponse("conn_error", "not_json", "") }

\* test_sync_chat, lines 62-69: _sync_response is called and the endpoint answers
SyncTestCall ==
    /\ driver = "sync_test"
    /\ pc = "start"
    /\ sync_calls' = sync_calls + 1
    /\ LET r == _sync_response(response)
       IN  /\ exc' = r.exc
           /\ result' = IF r.raised THEN NoResult
                         ELSE <<[content |-> r.content, citations |-> r.citations]>>
           /\ pc' = IF r.raised THEN "raised" ELSE "returned"
    /\ UNCHANGED <<envVars, sessVars, response, turns, messages, created_at, user_input,
                   sm_messages, token_count, summary_text, sync_outcome, summary, console,
                   outbound, full_response, conn, lines, citations, full_content, chunks,
                   gen, stream_calls>>

\* test_sync_chat, lines 71-79; an exception ends the test without a verdict
SyncTestFinish ==
    /\ driver = "sync_test"
    /\ pc \in {"returned", "raised"}
    /\ console' = IF pc = "raised" THEN Append(console, "error")
                  ELSE IF result[1].content # "" THEN Append(console, "PASSED")
                  ELSE Append(console, "FAILED")
    /\ pc' = "done"
    /\ UNCHANGED <<envVars, sessVars, response, turns, messages, created_at, user_input,
                   sm_messages, token_count, summary_text, sync_calls, sync_outcome,
                   summary, outbound, full_response, streamVars, stream_calls>>

\* the non-streaming test, about to call _sync_response
InitSync ==
    /\ driver = "sync_test"
    /\ tiktoken = "missing"
    /\ input_token_limit = LowLimit
    /\ pc = "start"
    /\ turns = 0
    /\ messages = <<>>
    /\ created_at = 0
    /\ user_input = ""
    /\ sm_messages = <<>>
    /\ token_count = 0
    /\ summary_text = ""
    /\ sync_calls = 0
    /\ sync_outcome = "none"
    /\ summary = ""
    /\ console = <<>>
    /\ outbound = <<>>
    /\ full_response = ""
    /\ conn = "none"
    /\ lines = <<>>
    /\ citations = <<>>
    /\ full_content = ""
    /\ chunks = <<>>
    /\ gen = "none"
    /\ exc = ""
    /\ result = NoResult
    /\ stream_calls = 0
    /\ response \in SyncTestResponses
    /\ InitSession

NextSync ==
    \/ SyncTestCall
    \/ SyncTestFinish

SpecSync == InitSync /\ [][NextSync]_vars

-----------------------------------------------------------------------------
(* Properties of summarize_if_needed and chat, checked under Spec. *)

\* summarize_if_needed has just returned to chat
BudgetChecked == driver = "cli" /\ pc = "build"

\* summarize_if_needed is running or has just returned
InBudgetCheck == driver = "cli" /\ pc \in {"summarizing", "build"}

\* C1: when a history of more than 4 messages is over budget and the
\* summarization call succeeds, the history becomes exactly 5 entries: a system
\* message "Previous conversation summary: " + summary, then the last 4
\* messages of the old history, unchanged and in order.
C1_CompressionResult ==
    ( /\ BudgetChecked
      /\ Len(sm_messages) > 4
      /\ get_messages_token_count(sm_messages) > input_token_limit
      /\ sync_outcome = "returned" )
    => /\ Len(messages) = 5
       /\ messages[1] = [role |-> "system",
                         content |-> "Previous conversation summary: " \o summary]
       /\ \A i \in 1..4 : messages[i + 1] = sm_messages[Len(sm_messages) - 4 + i]

C1_Witness ==
    /\ BudgetChecked
    /\ Len(sm_messages) = 6
    /\ get_messages_token_count(sm_messages) > input_token_limit
    /\ sync_outcome = "returned"
    /\ summary = "S"
    /\ sm_messages[3] # sm_messages[5]

\* C2: when the summarization call raises, the history after
\* summarize_if_needed is the history before it, and the failure is reported
\* (the warning is printed).
C2_FailureLeavesHistory ==
    (BudgetChecked /\ sync_outcome = "raised")
    => /\ messages = sm_messages
       /\ console = <<"summarizing", "warning">>

C2_Witness ==
    /\ BudgetChecked
    /\ sync_outcome = "raised"
    /\ Len(sm_messages) > 4
    /\ messages = sm_messages

\* the history from which the outbound list was built: what lies between the
\* system prompt and the new user turn
HistoryAtRequest == SubSeq(outbound, 2, Len(outbound) - 1)

\* chat has built the outbound list and is about to issue the streaming request
RequestFormed == driver = "cli" /\ pc = "streaming" /\ gen = "created"

\* C3 as stated: when the streaming request is formed, the token count of the
\* history is at most the configured limit.
C3_Original ==
    RequestFormed
    => get_messages_token_count(HistoryAtRequest) <= input_token_limit

\* C3 as amended: when the streaming request is formed, the token count of the
\* history is at most the limit, or the history has at most 4 messages, or the
\* summarization call of this cycle failed, or the history has just been
\* rewritten to the summary message and the last 4 messages.
C3_BudgetAtRequest ==
    RequestFormed
    => \/ get_messages_token_count(HistoryAtRequest) <= input_token_limit
       \/ Len(HistoryAtRequest) <= 4
       \/ sync_outcome = "raised"
       \/ sync_outcome = "returned" /\ Len(HistoryAtRequest) = 5

C3_Witness ==
    /\ RequestFormed
    /\ get_messages_token_count(HistoryAtRequest) > input_token_limit
    /\ sync_outcome = "returned"
    /\ Len(HistoryAtRequest) = 5

\* C8: with 4 or fewer messages summarize_if_needed leaves the history as it
\* was and makes no summarization call, however far over budget it is.
C8_ShortHistoryUntouched ==
    (InBudgetCheck /\ Len(sm_messages) <= 4)
    => /\ pc = "build"
       /\ messages = sm_messages
       /\ sync_calls = 0
       /\ sync_outcome = "none"

C8_Witness ==
    /\ BudgetChecked
    /\ Len(sm_messages) = 4
    /\ get_messages_token_count(sm_messages) > input_token_limit + 1
    /\ messages = sm_messages

\* C9: a history whose token count is equal to or below the budget is never
\* compressed, whatever its length, and no summarization call is made.
C9_AtBudgetUntouched ==
    (InBudgetCheck /\ get_messages_token_count(sm_messages) <= input_token_limit)
    => /\ pc = "build"
       /\ messages = sm_messages
       /\ sync_calls = 0
       /\ console = <<>>

C9_Witness ==
    /\ BudgetChecked
    /\ Len(sm_messages) > 4
    /\ get_messages_token_count(sm_messages) = input_token_limit
    /\ messages = sm_messages

-----------------------------------------------------------------------------
(* Properties of token counting, checked under SpecTokens. *)

RECURSIVE SumOver(_, _)
SumOver(f, s) == IF s = <<>> THEN 0 ELSE f[Len(Head(s).content)] + SumOver(f, Tail(s))

CeilQuarter == [n \in 0..(MaxTextLen + 1) |-> (n + 3) \div 4]

FloorQuarter == [n \in 0..(MaxTextLen + 1) |-> n \div 4]

Counted == driver = "count" /\ pc = "done"

-----------------------------------------------------------------------------
(* Properties of the streaming decoder, checked under SpecDecoder. *)

RECURSIVE Concat(_)
Concat(frags) == IF frags = <<>> THEN "" ELSE Head(frags) \o Concat(Tail(frags))

\* the decoder returned a result after consuming the sentinel
ReturnedAtSentinel ==
    /\ driver = "test"
    /\ result # NoResult
    /\ lines # <<>>
    /\ lines[Len(lines)] = DoneLine

\* C4: for a stream that ends in the [DONE] sentinel, the fragments yielded,
\* concatenated in order, are the content of the result returned.
C4_FragmentsMakeContent ==
    ReturnedAtSentinel => Concat(chunks) = result[1].content

C4_Witness ==
    /\ ReturnedAtSentinel
    /\ chunks = <<"Hel", "lo">>
    /\ result[1].content = "Hello"
    /\ result[1].citations = <<>>

\* the three kinds of noise: a blank line, a line of text without the
\* "data: " prefix, a "data: " line whose payload is not JSON
IsNoise(line) ==
    \/ line.raw \in {"empty", "other"}
    \/ line.raw = "data" /\ line.top = "malformed"

IsSignal(line) == ~IsNoise(line)

Denoise(ls) == SelectSeq(ls, IsSignal)

\* exceptions a received line can raise, as opposed to the transport's
LineErrors == {"TypeError", "AttributeError", "UnicodeDecodeError", "JSONDecodeError"}

WellFormedEvent(line) ==
    /\ line.top = "object"
    /\ line.choices \in {"absent", "empty", "list"}
    /\ line.choices = "list"
       => /\ line.first = "object"
          /\ line.delta \in {"absent", "object"}
          /\ line.delta = "object" => line.content \in {"absent", "empty", "null", "str"}

\* a "data: " line, not the sentinel, that is not JSON or is not an event record
FailsParsing(line) ==
    /\ line.raw = "data"
    /\ line.top # "done"
    /\ ~WellFormedEvent(line)

\* C6: a "data: " line that fails structured parsing, as invalid JSON or as
\* JSON that is not an event record, is discarded: no error leaves the
\* decoder, its content, citations and fragments are as before the line, and
\* the loop goes on to the next line.
C6_ParseFailureDiscarded ==
    [][ ( /\ driver = "test"
          /\ lines' # lines
          /\ FailsParsing(lines'[Len(lines')]) )
        => /\ gen' = "running"
           /\ exc' = ""
           /\ citations' = citations
           /\ full_content' = full_content
           /\ chunks' = chunks ]_vars

\* the citation list of the last event record in ls that carries one
RECURSIVE LastCitations(_)
LastCitations(ls) ==
    IF ls = <<>> THEN <<>>
    ELSE LET last == ls[Len(ls)]
         IN  IF last.raw = "data" /\ last.top = "object" /\ last.cit = "list"
             THEN last.citv
             ELSE LastCitations(SubSeq(ls, 1, Len(ls) - 1))

\* C7: the result's citations are the list of the last event that carried a
\* citations field, and the empty list when no event carried one.
C7_CitationsLastWriteWins ==
    (driver = "test" /\ result # NoResult)
    => result[1].citations = LastCitations(lines)

C7_Witness ==
    /\ driver = "test"
    /\ result # NoResult
    /\ \E i, j \in 1..Len(lines) :
          /\ i < j
          /\ lines[i] = Cites(CitationsA)
          /\ lines[j] = CitesDelta(CitationsB, "lo")
    /\ result[1].citations = CitationsB

-----------------------------------------------------------------------------
(* Transport failures of the streaming request. *)

\* the request could not be made, or was answered with a non-success status
RequestErrors == {"HTTPError", "ConnectionError"}

\* C11: when the request fails before any line is read (requests.post raises, or
\* the status is not a success) the generator raises that transport error with
\* no line read, no fragment yielded and no result; when the transport fails
\* while a line is awaited the error leaves the generator without a result and
\* the fragments yielded before it are still with the consumer; and a chat call
\* issues at most one streaming request.
C11_TransportFailure ==
    /\ exc \in RequestErrors =>
          /\ gen = "raised"
          /\ lines = <<>>
          /\ chunks = <<>>
          /\ full_response = ""
          /\ result = NoResult
    /\ exc = "ChunkedEncodingError" =>
          /\ gen = "raised"
          /\ chunks = RunLines(lines, <<>>, "", <<>>).yielded
          /\ full_response = Concat(chunks)
          /\ result = NoResult
    /\ stream_calls <= 1

\* the transport failed after a fragment had reached chat
C11_Witness ==
    /\ driver = "cli"
    /\ gen = "raised"
    /\ exc = "ChunkedEncodingError"
    /\ stream_calls = 1
    /\ chunks = <<"Hel">>
    /\ full_response = "Hel"

-----------------------------------------------------------------------------
(* The connection of the streaming request. *)

\* C12: a connection is open only while the generator that acquired it is
\* running; once the generator has returned (after the sentinel, or because the
\* transport ended), has raised (a transport error, a non-success status, a line
\* it could not process) or has been dropped by its consumer mid-stream, and
\* from then on, no connection is open.
C12_ConnectionReleased ==
    conn = "open" => pc = "streaming" /\ gen = "running"

\* the consumer dropped the generator after a fragment, and the connection is closed
C12_Witness ==
    /\ gen = "closed"
    /\ chunks = <<"Hel">>
    /\ conn = "closed"

-----------------------------------------------------------------------------
(* The sentinel. *)

IsSentinel(line) == line.raw = "data" /\ line.top = "done"

\* the lines read before the sentinel, or all of them when there is none
RECURSIVE BeforeSentinel(_)
BeforeSentinel(ls) ==
    IF ls = <<>> THEN <<>>
    ELSE IF IsSentinel(Head(ls)) THEN <<>>
    ELSE <<Head(ls)>> \o BeforeSentinel(Tail(ls))

\* C13: the sentinel ends the stream: it is the last line the decoder reads,
\* the generator has returned with it, and neither the fragments nor the
\* citation list hold anything from a later line; and whenever the generator
\* has returned (after the sentinel, or because the transport ended) there is
\* exactly one result, made of the content accumulated and the citation list
\* last seen over the lines before the sentinel, and there is none otherwise.
C13_SentinelTerminates ==
    LET r == RunLines(BeforeSentinel(lines), <<>>, "", <<>>)
    IN  /\ \A i \in 1..Len(lines) :
              IsSentinel(lines[i]) => i = Len(lines) /\ gen = "returned"
        /\ gen = "returned" =>
              /\ chunks = r.yielded
              /\ citations = r.citations
              /\ result = <<CompletionResult(r.citations, r.full_content)>>
        /\ gen # "returned" => result = NoResult

\* the sentinel came after a fragment and a citation list
C13_Witness ==
    /\ driver = "test"
    /\ Len(lines) = 3
    /\ IsSentinel(lines[3])
    /\ gen = "returned"
    /\ result = <<CompletionResult(CitationsA, "Hel")>>

-----------------------------------------------------------------------------
(* The outbound list. *)

\* the last n elements of a sequence, all of it when it is shorter
LastOf(msgs, n) ==
    LET k == IF Len(msgs) < n THEN Len(msgs) ELSE n
    IN  [i \in 1..k |-> msgs[Len(msgs) - k + i]]

\* the history the budget check of the current chat call left behind: the copy
\* it was given, or the summary message and the last four of that copy
HistoryAfterCheck ==
    IF sync_outcome = "returned"
    THEN <<Message("system", SummaryPrefix \o summary)>> \o LastOf(sm_messages, RecentWindow)
    ELSE sm_messages

\* C14: once chat has sent its request, the list it sent is the system prompt,
\* then the history the budget check left, then the new user turn, and the
\* session's history is that same history followed by the new user turn, once:
\* building the list changed nothing, and the turn was stored after it was built.
C14_OutboundList ==
    (driver = "cli" /\ pc = "streaming") =>
        /\ outbound = <<Message("system", SystemPrompt)>> \o HistoryAfterCheck
                          \o <<Message("user", user_input)>>
        /\ messages = HistoryAfterCheck \o <<Message("user", user_input)>>

\* a request sent right after a compression
C14_Witness ==
    /\ driver = "cli"
    /\ pc = "streaming"
    /\ gen = "created"
    /\ sync_outcome = "returned"
    /\ Len(outbound) = RecentWindow + 3
    /\ Len(messages) = RecentWindow + 2

-----------------------------------------------------------------------------
(* Requests in flight. *)

\* the summarization request of the current chat call has been issued and has not ended
SyncInFlight == sync_calls > 0 /\ sync_outcome = "none"

\* the streaming request of the current chat call has been issued and has not ended
StreamInFlight == stream_calls > 0 /\ gen = "running"

InFlight ==
    (IF SyncInFlight THEN sync_calls ELSE 0) + (IF StreamInFlight THEN stream_calls ELSE 0)

\* C15: at most one completion request is in flight at any time; from the
\* moment chat makes its generator, and so when the streaming request is
\* issued and while the stream is consumed, the summarization call of that
\* chat call (if there was one) is over, by return or by failure, and the
\* history is the one the budget check left plus the user turn; and while a
\* summarization call is in flight no generator exists and no connection is open.
C15_OneRequestAtATime ==
    /\ InFlight <= 1
    /\ gen # "none" =>
          /\ ~SyncInFlight
          /\ driver = "cli" => messages = HistoryAfterCheck \o <<Message("user", user_input)>>
    /\ SyncInFlight => gen = "none" /\ stream_calls = 0 /\ conn # "open"

\* a stream is being consumed in a chat call whose summarization call has returned
C15_Witness ==
    /\ StreamInFlight
    /\ conn = "open"
    /\ sync_calls = 1
    /\ sync_outcome = "returned"
    /\ chunks # <<>>

-----------------------------------------------------------------------------
(* summarize_if_needed called again, checked under SpecCompress. *)

\* summarize_if_needed is running, or has returned, for at least the second time in a row
RunAgain == driver = "compress" /\ turns >= 2 /\ pc \in {"summarizing", "build"}

\* C16: when summarize_if_needed is called again on the history its previous
\* call left, with the same budget, and that history's token count is not
\* above the budget, the call changes nothing in the session and issues no
\* summarization request.
C16_SecondRunIdle ==
    (RunAgain /\ get_messages_token_count(sm_messages) <= input_token_limit) =>
        /\ pc = "build"
        /\ messages = sm_messages
        /\ sync_calls = 0
        /\ sync_outcome = "none"
        /\ console = <<>>

\* the first call compressed the history to within the budget; the second has returned
C16_Witness ==
    /\ RunAgain
    /\ turns = 2
    /\ created_at = 1
    /\ Len(messages) = RecentWindow + 1
    /\ messages[1].role = "system"
    /\ token_count = input_token_limit
    /\ pc = "build"

-----------------------------------------------------------------------------
(* Session.save and Session.load, checked under SpecSessions. *)

\* session2.load was the last call made, and it followed a save under a name
LoadedAfterSave ==
    /\ driver = "session"
    /\ load_call.at = turns
    /\ save_call.at > 0
    /\ save_call.name # ""

\* the load gave back the session as the last save wrote it
SameAsSaved ==
    /\ load_call.ret
    /\ session2.messages = save_call.messages
    /\ session2.model = save_call.model

\* load found no file: it returned False and the object's messages are what they were
LoadFailedCleanly ==
    (driver = "session" /\ load_call.at = turns /\ turns > 0
        /\ load_call.arg \notin DOMAIN files
        /\ (load_call.arg \o ".json") \notin DOMAIN files) =>
            /\ ~load_call.ret
            /\ session2.messages = load_call.before

\* C19 as stated: after save(name), load of that name, with or without the
\* extension, returns True and gives the messages and the model that were
\* saved; and a load that finds no file returns False and changes no message.
C19_Original ==
    /\ (LoadedAfterSave
           /\ load_call.arg \in {save_call.name, save_call.name \o ".json"}) => SameAsSaved
    /\ LoadFailedCleanly

\* C19: after save(name), load of the file name save returned (the name with
\* the extension), or of the bare name when the directory holds no file of
\* exactly that name, returns True and gives the messages, in order, and the
\* model that were saved; and a load that finds no file returns False and
\* changes no message.
C19_RoundTrip ==
    /\ (LoadedAfterSave
           /\ \/ load_call.arg = save_call.name \o ".json"
              \/ load_call.arg = save_call.name /\ save_call.name \notin DOMAIN files)
        => SameAsSaved
    /\ LoadFailedCleanly

\* a history of two messages and a chosen model, saved as "a" and loaded by the bare name
C19_Witness ==
    /\ LoadedAfterSave
    /\ save_call.name = "a"
    /\ load_call.arg = "a"
    /\ load_call.ret
    /\ Len(session2.messages) = 2
    /\ session2.model = "sonar"
    /\ session2.current_file = "a.json"

-----------------------------------------------------------------------------
(* _sync_response, checked under SpecSync. *)

\* _sync_response has been called and is over
SyncCallOver == driver = "sync_test" /\ pc \in {"returned", "raised", "done"}

\* C17: _sync_response fails with the transport error when the request could
\* not be made or was answered with a non-success status, and returns nothing
\* then; when the body of a successful response has no `choices` key or an
\* empty `choices` list it raises nothing and returns one result whose content
\* is empty and whose citations are those of the body, or the empty list when
\* the body has none.
C17_SyncResponse ==
    SyncCallOver =>
        /\ response.status = "http_error" => exc = "HTTPError" /\ result = NoResult
        /\ response.status = "conn_error" => exc = "ConnectionError" /\ result = NoResult
        /\ (response.status = "ok" /\ response.body \in {"no_choices", "empty_choices"}) =>
              /\ exc = ""
              /\ result = <<[content |-> "",
                             citations |-> IF response.cit = "list" THEN response.citv
                                           ELSE <<>>]>>

\* a successful response with an empty choices list and a citation list has been answered
C17_Witness ==
    /\ SyncCallOver
    /\ response.status = "ok"
    /\ response.body = "empty_choices"
    /\ response.citv = CitationsB
    /\ result = <<[content |-> "", citations |-> CitationsB]>>
    /\ console = <<"FAILED">>

-----------------------------------------------------------------------------
(* The fragments, line by line. *)

\* the line is a `data: ` event whose choices[0].delta.content is a non-empty text
CarriesText(line) ==
    /\ line.raw = "data"
    /\ line.top = "object"
    /\ line.choices = "list"
    /\ line.first = "object"
    /\ line.delta = "object"
    /\ line.content = "str"
    /\ line.text # ""

\* the texts of the lines that carry one, in the order of the lines
RECURSIVE TextsOf(_)
TextsOf(ls) ==
    IF ls = <<>> THEN <<>>
    ELSE (IF CarriesText(Head(ls)) THEN <<Head(ls).text>> ELSE <<>>) \o TextsOf(Tail(ls))

\* C18: the fragments yielded so far are, in order, the delta contents of the
\* lines read so far that carry a non-empty text, one fragment for each such
\* line: every fragment is a non-empty text and is the content of exactly one
\* line, an event whose delta content is missing or empty adds none, and no
\* line adds more than one.
C18_FragmentsByLine ==
    /\ chunks = TextsOf(lines)
    /\ \A i \in 1..Len(chunks) : chunks[i] # ""
    /\ Len(chunks) <= Len(lines)

\* two fragments, with an empty delta and an empty content among the lines read
C18_Witness ==
    /\ driver = "test"
    /\ lines = <<Delta("Hel"), EmptyDelta, EmptyContent, CitesDelta(CitationsB, "lo")>>
    /\ chunks = <<"Hel", "lo">>

-----------------------------------------------------------------------------
(* The history after a chat call. *)

\* chat returns after its generator has returned
ChatCompletes == driver = "cli" /\ pc = "streaming" /\ gen = "returned" /\ pc' = "prompt"

-----------------------------------------------------------------------------
(* Termination of the decoder, checked under SpecDecoderFair. *)

\* the errors of the transport
TransportErrors == RequestErrors \cup {"ChunkedEncodingError"}

\* the generator is over
Terminated == gen \in {"returned", "raised"}

\* a step that examines a line examines one new line, in a running generator
\* that has not read the sentinel
ExaminesNewLine ==
    lines' # lines =>
        /\ gen = "running"
        /\ \E line \in Lines : lines' = Append(lines, line)
        /\ \A i \in 1..Len(lines) : ~IsSentinel(lines[i])

\* The generator of a consumed stream is eventually over, whatever its lines,
\* and every line is examined once and none after the sentinel.
DecoderTerminates == <>Terminated /\ [][ExaminesNewLine]_vars

\* C21: the generator of a fully consumed stream is eventually over, with one
\* result or with a transport error, having examined each line at most once
\* and no line that follows the sentinel.
C21_TerminatesCleanly ==
    /\ <>Terminated
    /\ [](gen = "returned" => Len(result) = 1)
    /\ [](gen = "raised" => exc \in TransportErrors)
    /\ [][ExaminesNewLine]_vars

-----------------------------------------------------------------------------
(* The history after a failed chat call. *)

\* chat returns after its generator has raised
ChatFails == driver = "cli" /\ pc = "streaming" /\ gen = "raised" /\ pc' = "prompt"

\* C22: when chat returns after its streaming request has failed, before the
\* stream or during it, the history is the history the request was built from,
\* then the user turn, and nothing else: the user turn stays, no assistant
\* message is stored, and what was received before the failure is dropped.
C22_HistoryAfterFailure ==
    [][ChatFails =>
          messages' = HistoryAfterCheck \o <<Message("user", user_input)>>]_vars

\* two chat calls have failed, each leaving its user turn and nothing more
C22_Witness ==
    /\ driver = "cli"
    /\ pc = "prompt"
    /\ console = <<"error">>
    /\ Len(messages) = 2
    /\ messages[1].role = "user"
    /\ messages[2].role = "user"

-----------------------------------------------------------------------------
(* Rewriting and the outcome of the summarization call. *)

\* summarize_if_needed has returned to chat after a summarization call
SummarizationOver == driver = "cli" /\ pc = "build" /\ sync_calls = 1

\* C23: once the summarization call is over, it has returned or it has raised;
\* if it returned, whatever the text, the empty one included, the history is
\* the summary message (the prefix followed by the text) and the last four
\* messages of the old history; if it raised, the history is the old one; and
\* the session was cleared and rebuilt exactly when the call returned.
C23_RewriteIffReturned ==
    SummarizationOver =>
        /\ sync_outcome \in {"returned", "raised"}
        /\ sync_outcome = "returned" =>
              messages = <<Message("system", SummaryPrefix \o summary)>>
                             \o LastOf(sm_messages, RecentWindow)
        /\ sync_outcome = "raised" => messages = sm_messages
        /\ (created_at = turns) <=> (sync_outcome = "returned")

\* the call returned the empty text and the history was rewritten all the same
C23_Witness ==
    /\ SummarizationOver
    /\ sync_outcome = "returned"
    /\ summary = ""
    /\ messages[1] = Message("system", SummaryPrefix)
    /\ Len(messages) = RecentWindow + 1
    /\ Len(sm_messages) > RecentWindow + 1

-----------------------------------------------------------------------------
(* System messages in the history, checked under SpecLong. *)

\* the positions of the system messages of a history
SystemAt(msgs) == {i \in 1..Len(msgs) : msgs[i].role = "system"}

\* the texts the summarization call can return
SummaryTexts == {summarize("", resp).content : resp \in SyncResponses}

\* the message is a summary message: the prefix followed by a returned text
IsSummaryMessage(m) ==
    /\ m.role = "system"
    /\ \E text \in SummaryTexts : m.content = SummaryPrefix \o text

\* C24: in every history reached from the empty one by chat calls there is at
\* most one system message; if there is one it is the first message and its
\* content is the summary prefix followed by a summary; and whenever a history
\* that holds a summary message is compressed, that message lies in the part
\* given to the summarization call and not among the last four that are kept.
C24_OneSummaryMessage ==
    /\ SystemAt(messages) \subseteq {1}
    /\ \A i \in SystemAt(messages) : IsSummaryMessage(messages[i])
    /\ (pc \in {"summarizing", "build"} /\ sync_calls = 1 /\ SystemAt(sm_messages) # {}) =>
          /\ SystemAt(sm_messages) = {1}
          /\ Len(sm_messages) - RecentWindow >= 1
          /\ SystemAt(LastOf(sm_messages, RecentWindow)) = {}

\* a history that began with a summary message has been compressed again,
\* with two later messages beside the old summary in the part summarized
C24_Witness ==
    /\ driver = "cli_long"
    /\ pc = "build"
    /\ sync_outcome = "returned"
    /\ Len(sm_messages) = RecentWindow + 3
    /\ IsSummaryMessage(sm_messages[1])
    /\ Len(messages) = RecentWindow + 1
    /\ IsSummaryMessage(messages[1])
    /\ messages[1].content # sm_messages[1].content

-----------------------------------------------------------------------------
(* What summarize_if_needed leaves alone. *)

\* a step of summarize_if_needed: its start within chat, or the end of its summarization call
CompressionStep ==
    /\ driver \in CliDrivers
    /\ \/ pc = "prompt" /\ pc' \in {"summarizing", "build"}
       \/ pc = "summarizing" /\ pc' = "build"

\* C25: summarize_if_needed, whether it rewrites the history or not, leaves
\* the session's model, current file and creation timestamp as they were.
C25_CompressionFrame ==
    [][CompressionStep =>
          /\ model' = model
          /\ current_file' = current_file
          /\ created_at' = created_at]_vars

====
